---- MODULE Spec2Model ----
(***************************************************************************)
(* react_native_fix_hermes_decomp.py: the rewriter that repairs            *)
(* hbc-decompiler output.  The text is a sequence of one-character         *)
(* strings; the two regular-expression substitutions of the `replacements` *)
(* table are modelled by scanners that do what re.sub does with them.      *)
(***************************************************************************)
EXTENDS Integers, Sequences, FiniteSets, TLC

\* ---------------------------------------------------------------- bounds
\* largest number of tokens an input text is built from
MaxTokens == 4
\* largest value of the --iterations argument (the default of the script,
\* DEFAULT_ITERATIONS_COUNT = 100, lies beyond it; a negative value gives an
\* empty range exactly as 0 does)
MaxIter == 3
\* largest number of tokens of an input text in the file-handling runs
MaxTokensIO == 1
\* largest number of tokens of an input text in the long runs
MaxTokensLong == 3

\* ------------------------------------------------------------ characters
BS == "\\"
NL == "\n"
\* the backquote character (the string syntax cannot hold the character itself)
BQ == "backquote"

\* a character class that lets the backslash in as well
IdentChars_WithBackslash ==
  { "a","b","c","d","e","f","g","h","i","j","k","l","m",
    "n","o","p","q","r","s","t","u","v","w","x","y","z",
    "A","B","C","D","E","F","G","H","I","J","K","L","M",
    "N","O","P","Q","R","S","T","U","V","W","X","Y","Z",
    "0","1","2","3","4","5","6","7","8","9","_", "\\" }

\* the character class [a-zA-Z0-9_] of the first pattern
IdentChars ==
  { "a","b","c","d","e","f","g","h","i","j","k","l","m",
    "n","o","p","q","r","s","t","u","v","w","x","y","z",
    "A","B","C","D","E","F","G","H","I","J","K","L","M",
    "N","O","P","Q","R","S","T","U","V","W","X","Y","Z",
    "0","1","2","3","4","5","6","7","8","9","_" }

\* ---------------------------------------------- rule 1: \.(@@[a-zA-Z0-9_]+)
\* does the pattern \.(@@[a-zA-Z0-9_]+) match text t at position p
MatchSpecial(t, p) ==
  /\ p + 3 <= Len(t)
  /\ t[p] = "."
  /\ t[p+1] = "@"
  /\ t[p+2] = "@"
  /\ t[p+3] \in IdentChars

\* the greedy [a-zA-Z0-9_]+ : last position of the run that holds position e
RECURSIVE IdentRunEnd(_, _)
IdentRunEnd(t, e) ==
  IF e < Len(t) /\ t[e+1] \in IdentChars THEN IdentRunEnd(t, e+1) ELSE e

\* rule 1 with a lazy [a-zA-Z0-9_]+? : the match stops at the first
\* identifier character
RECURSIVE SubSpecialFrom_Lazy(_, _)
SubSpecialFrom_Lazy(t, p) ==
  IF p > Len(t) THEN <<>>
  ELSE IF MatchSpecial(t, p)
       THEN <<"[", BQ>> \o SubSeq(t, p+1, p+3) \o <<BQ, "]">>
              \o SubSpecialFrom_Lazy(t, p+4)
       ELSE <<t[p]>> \o SubSpecialFrom_Lazy(t, p+1)

\* rule 1 with the whole match, dot included, between the backquotes
RECURSIVE SubSpecialFrom_WholeMatch(_, _)
SubSpecialFrom_WholeMatch(t, p) ==
  IF p > Len(t) THEN <<>>
  ELSE IF MatchSpecial(t, p)
       THEN LET e == IdentRunEnd(t, p+3)
            IN  <<"[", BQ>> \o SubSeq(t, p, e) \o <<BQ, "]">>
                  \o SubSpecialFrom_WholeMatch(t, e+1)
       ELSE <<t[p]>> \o SubSpecialFrom_WholeMatch(t, p+1)

\* re.sub of rule 1 on t from position p on: every non-overlapping match,
\* left to right, becomes [ backquote \1 backquote ]
RECURSIVE SubSpecialFrom(_, _)
SubSpecialFrom(t, p) ==
  IF p > Len(t) THEN <<>>
  ELSE IF MatchSpecial(t, p)
       THEN LET e == IdentRunEnd(t, p+3)
            IN  <<"[", BQ>> \o SubSeq(t, p+1, e) \o <<BQ, "]">>
                  \o SubSpecialFrom(t, e+1)
       ELSE <<t[p]>> \o SubSpecialFrom(t, p+1)

SubSpecial(t) == SubSpecialFrom(t, 1)

\* --------------------------- rule 2: (= /[^\n]*)(\\\\/)([^\n]*/)
\* first position >= p that holds a newline, Len(t)+1 when there is none:
\* how far [^\n]* can run
RECURSIVE LineEnd(_, _)
LineEnd(t, p) ==
  IF p > Len(t) \/ t[p] = NL THEN p ELSE LineEnd(t, p+1)

\* greatest position in a..b that holds "/", 0 when there is none
\* (the greedy [^\n]*/ of group 3 ends at the last slash it can reach)
RECURSIVE LastSlash(_, _, _)
LastSlash(t, a, b) ==
  IF b < a THEN 0
  ELSE IF t[b] = "/" THEN b ELSE LastSlash(t, a, b-1)

\* two backslashes and a slash at position q: the group (\\\\/)
EscapedAt(t, q) ==
  /\ q >= 1
  /\ q + 2 <= Len(t)
  /\ t[q] = BS
  /\ t[q+1] = BS
  /\ t[q+2] = "/"

\* least position in a..b where (\\\\/) matches, 0 when there is none: a
\* lazy group 1
RECURSIVE LastEscaped_First(_, _, _)
LastEscaped_First(t, a, b) ==
  IF b < a THEN 0
  ELSE IF EscapedAt(t, a) THEN a ELSE LastEscaped_First(t, a+1, b)

\* greatest position in a..b where (\\\\/) matches, 0 when there is none
\* (the greedy [^\n]* of group 1 gives back characters until group 2 fits)
RECURSIVE LastEscaped(_, _, _)
LastEscaped(t, a, b) ==
  IF b < a THEN 0
  ELSE IF EscapedAt(t, b) THEN b ELSE LastEscaped(t, a, b-1)

\* rule 2 without "= " in front of the opening slash
MatchEscape_AnySlash(t, p) ==
  IF ~(p <= Len(t) /\ t[p] = "/")
  THEN [q |-> 0, r |-> 0]
  ELSE LET le == LineEnd(t, p+1)
           r  == LastSlash(t, p+1, le-1)
           q  == IF r = 0 THEN 0 ELSE LastEscaped(t, p+1, r-3)
       IN  [q |-> q, r |-> r]

\* the match of rule 2 that starts at position p: [q |-> where group 2
\* starts, r |-> where the match ends], q = 0 when there is no match at p
MatchEscape(t, p) ==
  IF ~(p + 2 <= Len(t) /\ t[p] = "=" /\ t[p+1] = " " /\ t[p+2] = "/")
  THEN [q |-> 0, r |-> 0]
  ELSE LET le == LineEnd(t, p+3)
           r  == LastSlash(t, p+3, le-1)
           q  == IF r = 0 THEN 0 ELSE LastEscaped(t, p+3, r-3)
       IN  [q |-> q, r |-> r]

\* rule 2 with a replacement that writes both backslashes back
RECURSIVE SubEscapeFrom_KeepsBoth(_, _)
SubEscapeFrom_KeepsBoth(t, p) ==
  IF p > Len(t) THEN <<>>
  ELSE LET m == MatchEscape(t, p)
       IN  IF m.q # 0
           THEN SubSeq(t, p, m.q - 1) \o <<BS, BS, "/">> \o SubSeq(t, m.q + 3, m.r)
                  \o SubEscapeFrom_KeepsBoth(t, m.r + 1)
           ELSE <<t[p]>> \o SubEscapeFrom_KeepsBoth(t, p+1)

\* re.sub of rule 2 on t from position p on: every non-overlapping match,
\* left to right, becomes \1\\/\3 (group 2 loses one backslash)
RECURSIVE SubEscapeFrom(_, _)
SubEscapeFrom(t, p) ==
  IF p > Len(t) THEN <<>>
  ELSE LET m == MatchEscape(t, p)
       IN  IF m.q # 0
           THEN SubSeq(t, p, m.q - 1) \o <<BS, "/">> \o SubSeq(t, m.q + 3, m.r)
                  \o SubEscapeFrom(t, m.r + 1)
           ELSE <<t[p]>> \o SubEscapeFrom(t, p+1)

SubEscape(t) == SubEscapeFrom(t, 1)

\* the replacements table, in insertion order
RuleCount == 2

replacements(rule, t) == IF rule = 1 THEN SubSpecial(t) ELSE SubEscape(t)

\* a range that holds its upper end
InRange_Inclusive(i, n) == i <= n

\* range(0, iterations): is there a pass number i
InRange(i, n) == i < n

\* ---------------------------------------------------------------- inputs
RECURSIVE Concat(_)
Concat(ss) == IF ss = <<>> THEN <<>> ELSE Head(ss) \o Concat(Tail(ss))

\* the pieces the input texts are built from
Tokens ==
  { <<".", "@", "@">>, <<"a">>, <<"=", " ", "/">>, <<BS>>, <<BS, BS, "/">>,
    <<BS, BS, "/", BS, BS, "/">>, <<"/">>, <<NL>> }

TextsUpTo(n) == UNION { { Concat(ss) : ss \in [1..k -> Tokens] } : k \in 0..n }

Texts == TextsUpTo(MaxTokens)

TextsIO == TextsUpTo(MaxTokensIO)

TextsLong == TextsUpTo(MaxTokensLong)

\* no file at a path; no text is equal to it
NoFile == <<"no file">>

\* data = None, before the file is read; no text is equal to it
None == <<"None">>

\* what the output path holds before a run that finds a file there
OldOutput == <<"o", "l", "d">>

\* ----------------------------------------------------------------- state
VARIABLES
  pc,          \* where the script is
  help,        \* is -h or --help among the arguments
  inFile,      \* the input file: its text, or NoFile when it cannot be opened
  outFile,     \* the file at the output path: its text, or NoFile
  iterations,  \* args.iterations
  data,        \* the local `data` of the function, then FIXED_DATA
  i,           \* passes of the outer loop that are complete
  rule,        \* the rule the inner loop applies next
  hist,        \* data at the end of each complete pass, hist[1] the text read
  exitCode     \* the exit status, -1 while the script runs

vars == <<pc, help, inFile, outFile, iterations, data, i, rule, hist, exitCode>>

InitWith(texts, outs, counts) ==
  /\ pc = "start"
  /\ help \in BOOLEAN
  /\ inFile \in texts \cup {NoFile}
  /\ outFile \in outs
  /\ iterations \in counts
  /\ data = None
  /\ i = 0
  /\ rule = 1
  /\ hist = <<>>
  /\ exitCode = -1

Init == InitWith(Texts, {NoFile}, 0..MaxIter)

\* the runs that look at the files: either no file at the output path or an
\* old one
InitIO == InitWith(TextsIO, {NoFile, OldOutput}, 0..MaxIter)

\* the long runs: two passes more than a text can hold backslashes (a token
\* holds four at most)
LongIterations == 4 * MaxTokensLong + 2

InitLong == InitWith(TextsLong, {NoFile}, {LongIterations})

\* -h / --help: usage is printed and the script exits with status 0
PrintHelp ==
  /\ pc = "start"
  /\ help
  /\ pc' = "exit"
  /\ exitCode' = 0
  /\ UNCHANGED <<help, inFile, outFile, iterations, data, i, rule, hist>>

\* open(fpath, 'r') and f.read()
ReadInput ==
  /\ pc = "start"
  /\ ~help
  /\ inFile # NoFile
  /\ data' = inFile
  /\ hist' = <<inFile>>
  /\ pc' = "loop"
  /\ UNCHANGED <<help, inFile, outFile, iterations, i, rule, exitCode>>

\* the failure to open the input is swallowed and the run goes on with an
\* empty text
ReadInputFails_Swallowed ==
  /\ pc = "start"
  /\ ~help
  /\ inFile = NoFile
  /\ data' = <<>>
  /\ hist' = <<data'>>
  /\ pc' = "loop"
  /\ UNCHANGED <<help, inFile, outFile, iterations, i, rule, exitCode>>

\* open(fpath, 'r') raises: the exception is not caught, the script dies
ReadInputFails ==
  /\ pc = "start"
  /\ ~help
  /\ inFile = NoFile
  /\ pc' = "exit"
  /\ exitCode' = 1
  /\ UNCHANGED <<help, inFile, outFile, iterations, data, i, rule, hist>>

\* a loop that applies one rule in each pass, the rules taking turns
ApplyRule_OneRulePerPass ==
  /\ pc = "loop"
  /\ InRange(i, iterations)
  /\ data' = IF rule = (i % RuleCount) + 1 THEN replacements(rule, data) ELSE data
  /\ IF rule = RuleCount
     THEN /\ rule' = 1
          /\ i' = i + 1
          /\ hist' = Append(hist, data')
     ELSE /\ rule' = rule + 1
          /\ UNCHANGED <<i, hist>>
  /\ UNCHANGED <<pc, help, inFile, outFile, iterations, exitCode>>

\* one turn of the inner loop: data = re.sub(regex, replace_with, data)
ApplyRule ==
  /\ pc = "loop"
  /\ InRange(i, iterations)
  /\ data' = replacements(rule, data)
  /\ IF rule = RuleCount
     THEN /\ rule' = 1
          /\ i' = i + 1
          /\ hist' = Append(hist, data')
     ELSE /\ rule' = rule + 1
          /\ UNCHANGED <<i, hist>>
  /\ UNCHANGED <<pc, help, inFile, outFile, iterations, exitCode>>

\* the outer loop is exhausted: return data
Return ==
  /\ pc = "loop"
  /\ rule = 1
  /\ ~InRange(i, iterations)
  /\ pc' = "returned"
  /\ UNCHANGED <<help, inFile, outFile, iterations, data, i, rule, hist, exitCode>>

\* open(out_fpath, 'w'): the file is created or truncated
OpenOutput ==
  /\ pc = "returned"
  /\ outFile' = <<>>
  /\ pc' = "writing"
  /\ UNCHANGED <<help, inFile, iterations, data, i, rule, hist, exitCode>>

\* open(out_fpath, 'w') raises
OpenOutputFails ==
  /\ pc = "returned"
  /\ pc' = "exit"
  /\ exitCode' = 1
  /\ UNCHANGED <<help, inFile, outFile, iterations, data, i, rule, hist>>

\* f.write(FIXED_DATA), the file is closed, the script ends
WriteOutput ==
  /\ pc = "writing"
  /\ outFile' = data
  /\ pc' = "exit"
  /\ exitCode' = 0
  /\ UNCHANGED <<help, inFile, iterations, data, i, rule, hist>>

Next ==
  \/ PrintHelp
  \/ ReadInput
  \/ ReadInputFails
  \/ ApplyRule
  \/ Return
  \/ OpenOutput
  \/ OpenOutputFails
  \/ WriteOutput

Spec == Init /\ [][Next]_vars

SpecIO == InitIO /\ [][Next]_vars

SpecLong == InitLong /\ [][Next]_vars

\* ============================================================ properties
\* The patterns are stated here by what they match, position by position,
\* on their own and not through the scanners above.

\* a dot, @@ and an identifier character stand at position p
DotAtAt(t, p) ==
  /\ p >= 1
  /\ p + 3 <= Len(t)
  /\ <<t[p], t[p+1], t[p+2]>> = <<".", "@", "@">>
  /\ t[p+3] \in IdentChars

HasSpecial(t) == \E p \in 1..Len(t) : DotAtAt(t, p)

\* e is the last character of the maximal identifier run that starts at b
RunFromTo(t, b, e) ==
  /\ b <= e
  /\ e <= Len(t)
  /\ \A j \in b..e : t[j] \in IdentChars
  /\ (e = Len(t) \/ t[e+1] \notin IdentChars)

\* what position p of t becomes when every .@@identifier is bracketed
BracketPiece(t, p) ==
  IF DotAtAt(t, p) THEN <<"[", BQ>>
  ELSE IF t[p] \in IdentChars /\ \E s \in 1..p : DotAtAt(t, s) /\ RunFromTo(t, s+3, p)
       THEN <<t[p], BQ, "]">>
       ELSE <<t[p]>>

Bracketed(t) == Concat([p \in 1..Len(t) |-> BracketPiece(t, p)])

\* no newline in positions a..b of t
SameLine(t, a, b) == \A j \in a..b : t[j] # NL

\* "= /" stands at position s
AssignAt(t, s) ==
  /\ s >= 1
  /\ s + 2 <= Len(t)
  /\ <<t[s], t[s+1], t[s+2]>> = <<"=", " ", "/">>

\* two backslashes and a slash stand at q, after a "= /" and before a later
\* slash of the same line: a sequence rule 2 can match
Matchable(t, q) ==
  /\ q >= 1
  /\ q + 2 <= Len(t)
  /\ <<t[q], t[q+1], t[q+2]>> = <<BS, BS, "/">>
  /\ \E s \in 1..(q-3) : AssignAt(t, s) /\ SameLine(t, s, q)
  /\ \E r \in (q+3)..Len(t) : t[r] = "/" /\ SameLine(t, q, r)

HasMatchable(t) == \E q \in 1..Len(t) : Matchable(t, q)

\* the steps of the inner loop
Rule1Step == pc = "loop" /\ rule = 1 /\ pc' = "loop" /\ rule' = 2
Rule2Step == pc = "loop" /\ rule = 2 /\ pc' = "loop" /\ rule' = 1

\* C1: the rule-1 step of a pass turns the text into the text with every
\* .@@identifier (maximal identifier run) bracketed and backquoted; from the
\* end of the first rule-1 step on no .@@identifier is left in the text, and
\* the rule-1 step of every later pass leaves the text as it is.
C1_SpecialRewritten ==
  [][ /\ Rule1Step => data' = Bracketed(data)
      /\ Rule1Step /\ i >= 1 => data' = data
      /\ (pc' = "loop" /\ (i' >= 1 \/ rule' = 2)) => ~HasSpecial(data')
    ]_vars

C1_Witness ==
  /\ pc = "loop"
  /\ i >= 1
  /\ rule = 2
  /\ HasSpecial(hist[1])
  /\ data # hist[1]

\* C3: with iterations = 0 no pass is made and the text returned, and then
\* written, is the text read, character for character.
C3_ZeroIterations ==
  (iterations = 0 /\ data # None) =>
     /\ data = inFile
     /\ i = 0
     /\ hist = <<inFile>>
     /\ (pc = "exit" /\ exitCode = 0 => outFile = inFile)

C3_Witness ==
  /\ iterations = 0
  /\ pc = "exit"
  /\ exitCode = 0
  /\ outFile = inFile
  /\ (HasSpecial(inFile) \/ HasMatchable(inFile))

\* C4: a text with no match of rule 1 and no match of rule 2 (the empty text
\* is one) stays the text read, through every step of every pass: a text that
\* is no longer the text read had a match of one of the rules.
C4_NonMatchingUnchanged ==
  (data # None /\ data # inFile) => (HasSpecial(inFile) \/ HasMatchable(inFile))

C4_Witness ==
  /\ pc = "returned"
  /\ i >= 2
  /\ ~HasSpecial(inFile)
  /\ ~HasMatchable(inFile)
  /\ \E q \in 1..Len(inFile) : EscapedAt(inFile, q)
  /\ \E p \in 1..(Len(inFile) - 2) : SubSeq(inFile, p, p+2) = <<".", "@", "@">>

\* ------------------------------------------------------- lines and counts
\* the line (counted from 1) that position p of t is on
LineNo(t, p) == 1 + Cardinality({ j \in 1..(p-1) : t[j] = NL })

NumLines(t) == 1 + Cardinality({ j \in 1..Len(t) : t[j] = NL })

\* the sequences of line l that rule 2 can match
MatchableOnLine(t, l) ==
  { q \in 1..Len(t) : Matchable(t, q) /\ LineNo(t, q) = l }

\* a defect: a matchable sequence of exactly two backslashes
Defect(t, q) == Matchable(t, q) /\ t[q-1] # BS

DefectsOnLine(t, l) == Cardinality({ q \in MatchableOnLine(t, l) : Defect(t, q) })

\* b holds a backslash of a run that ends at the slash of a matchable
\* sequence, and not the last one of the run: one backslash too many
ExcessAt(t, b) ==
  /\ t[b] = BS
  /\ \E q \in b..Len(t) : (\A j \in b..q : t[j] = BS) /\ Matchable(t, q)

ExcessOnLine(t, l) ==
  Cardinality({ b \in 1..Len(t) : ExcessAt(t, b) /\ LineNo(t, b) = l })

Remaining(k, j) == IF j < k THEN k - j ELSE 0

\* the text stands between two passes: i passes are complete
BetweenPasses == pc = "loop" /\ rule = 1

\* C2 as claimed: a line with k >= 1 defects shows k - j defects after j < k
\* passes and none after k or more passes.
C2_Original ==
  BetweenPasses =>
    \A l \in 1..NumLines(inFile) :
      LET k == DefectsOnLine(inFile, l)
      IN  k >= 1 => DefectsOnLine(data, l) = Remaining(k, i)

\* C2 amended: count, for every slash that rule 2 can match, the backslashes
\* before it beyond the first.  A line with k >= 1 of them loses exactly one
\* in each pass: k - j are left after j < k passes and none after k passes.
\* On a line where every matchable sequence is a defect (exactly two
\* backslashes) k is the number of defects, and the defects follow k - j.
C2_Amended ==
  BetweenPasses =>
    \A l \in 1..NumLines(inFile) :
      /\ LET k == ExcessOnLine(inFile, l)
         IN  k >= 1 => ExcessOnLine(data, l) = Remaining(k, i)
      /\ LET k == DefectsOnLine(inFile, l)
         IN  (k >= 1 /\ \A q \in MatchableOnLine(inFile, l) : Defect(inFile, q)) =>
               DefectsOnLine(data, l) = Remaining(k, i)

C2_Witness ==
  /\ Len(hist) >= 4
  /\ NumLines(hist[1]) = 1
  /\ DefectsOnLine(hist[1], 1) = 3
  /\ DefectsOnLine(hist[2], 1) = 2
  /\ DefectsOnLine(hist[3], 1) = 1
  /\ DefectsOnLine(hist[4], 1) = 0

\* the first text of h that the next pass leaves as it is, the last text
\* when there is none: what a loop that stops at the first pass without a
\* change returns
FirstFixed(h) ==
  IF \E k \in 1..(Len(h) - 1) : h[k] = h[k+1]
  THEN h[CHOOSE k \in 1..(Len(h) - 1) :
              /\ h[k] = h[k+1]
              /\ \A m \in 1..(k-1) : h[m] # h[m+1]]
  ELSE h[Len(h)]

\* C5: once a pass leaves the text as it is, every later pass does, and the
\* text returned is the one a loop with an early exit returns.
C5_FixedPointStable ==
  Len(hist) >= 1 =>
    /\ \A k \in 1..(Len(hist) - 1) :
         hist[k] = hist[k+1] => \A n \in k..Len(hist) : hist[n] = hist[k]
    /\ pc \in {"returned", "writing", "exit"} => data = FirstFixed(hist)

C5_Witness ==
  /\ pc = "returned"
  /\ Len(hist) >= 4
  /\ hist[1] # hist[2]
  /\ hist[2] # hist[3]
  /\ hist[3] = hist[4]

Backslashes(t) == Cardinality({ j \in 1..Len(t) : t[j] = BS })

\* C7: after one pass more than the text has backslashes the text is a fixed
\* point, and the texts of a run never come back to an earlier text that
\* they have left.
C7_Converges ==
  Len(hist) >= 1 =>
    /\ \A k \in 1..(Len(hist) - 1) :
         k >= Backslashes(hist[1]) + 2 => hist[k+1] = hist[k]
    /\ \A j \in 1..Len(hist) : \A k \in j..Len(hist) :
         hist[j] = hist[k] => \A m \in j..k : hist[m] = hist[j]

C7_Witness ==
  /\ pc = "returned"
  /\ Len(hist) >= Backslashes(hist[1]) + 3
  /\ Backslashes(hist[1]) >= 4
  /\ Cardinality({ k \in 1..(Len(hist) - 1) : hist[k] # hist[k+1] }) >= 2

\* ------------------------------------------------- which sequence is fixed
Several(t) ==
  \E l \in 1..NumLines(t) : Cardinality(MatchableOnLine(t, l)) >= 2

Leftmost(t) ==
  { q \in 1..Len(t) :
      /\ Matchable(t, q)
      /\ \A q2 \in MatchableOnLine(t, LineNo(t, q)) : q <= q2 }

Rightmost(t) ==
  { q \in 1..Len(t) :
      /\ Matchable(t, q)
      /\ \A q2 \in MatchableOnLine(t, LineNo(t, q)) : q >= q2 }

\* t without the characters at the positions of S
Without(t, S) ==
  Concat([p \in 1..Len(t) |-> IF p \in S THEN <<>> ELSE <<t[p]>>])

\* C8 as claimed: on a text with a line that holds several matchable
\* sequences, the rule-2 step takes one backslash from the leftmost matchable
\* sequence of each line and leaves the others.
C8_Original ==
  [][ Rule2Step /\ Several(data) => data' = Without(data, Leftmost(data)) ]_vars

\* C8 amended: it is the rightmost matchable sequence of each line that
\* loses a backslash; the ones to its left are left for later passes.
C8_Amended ==
  [][ Rule2Step /\ Several(data) => data' = Without(data, Rightmost(data)) ]_vars

C8_Witness ==
  /\ pc = "loop"
  /\ i = 1
  /\ rule = 1
  /\ Several(hist[1])
  /\ hist[2] = Without(hist[1], Rightmost(hist[1]))
  /\ hist[2] # Without(hist[1], Leftmost(hist[1]))

\* position p lies in a regular-expression literal: after a "= /" of its
\* line, with no slash without a backslash before it in between (the
\* closing slash itself is the last position of the literal)
InLiteral(t, p) ==
  \E s \in 1..(p-3) :
     /\ AssignAt(t, s)
     /\ SameLine(t, s, p)
     /\ \A j \in (s+3)..(p-1) : ~(t[j] = "/" /\ t[j-1] # BS)

\* the characters of t that are in no regular-expression literal
OutsideText(t) ==
  Concat([p \in 1..Len(t) |-> IF InLiteral(t, p) THEN <<>> ELSE <<t[p]>>])

\* C9: the rule-2 step changes nothing outside the regular-expression
\* literals: the text after a literal's closing slash and the lines without
\* "= /" stay as they are.
C9_Original ==
  [][ Rule2Step => OutsideText(data') = OutsideText(data) ]_vars

\* C10: the rule-1 step leaves the number of sequences rule 2 can match as
\* it is, the rule-2 step leaves the number of .@@identifier matches as it
\* is, and the text at the end of a pass is the text that rule 2 followed by
\* rule 1 makes of the text at the start of the pass.
C10_RulesIndependent ==
  [][ /\ Rule1Step =>
           Cardinality({ q \in 1..Len(data') : Matchable(data', q) })
             = Cardinality({ q \in 1..Len(data) : Matchable(data, q) })
      /\ Rule2Step =>
           /\ Cardinality({ p \in 1..Len(data') : DotAtAt(data', p) })
                = Cardinality({ p \in 1..Len(data) : DotAtAt(data, p) })
           /\ data' = SubSpecial(SubEscape(hist[Len(hist)]))
    ]_vars

C10_Witness ==
  /\ pc = "loop"
  /\ i >= 1
  /\ HasSpecial(hist[1])
  /\ HasMatchable(hist[1])
  /\ SubSpecial(hist[1]) # hist[1]
  /\ SubEscape(hist[1]) # hist[1]
  /\ hist[2] = SubSpecial(SubEscape(hist[1]))

\* C6: the output file changes only after the whole input has been read and
\* the passes are done; when the input cannot be opened the script ends with
\* a nonzero status, without a pass, and the output file stays as it was.
C6_InputFailure ==
  [][ /\ outFile' # outFile =>
           /\ pc \in {"returned", "writing"}
           /\ Len(hist) >= 1
           /\ hist[1] = inFile
      /\ inFile = NoFile =>
           /\ outFile' = outFile
           /\ i' = 0
           /\ hist' = <<>>
           /\ data' = None
           /\ pc' = "exit"
           /\ ~help => exitCode' # 0
    ]_vars

C6_Witness ==
  /\ pc = "exit"
  /\ inFile = NoFile
  /\ ~help
  /\ exitCode = 1
  /\ outFile = OldOutput

====
